---------------------------- MODULE Spec2Model ----------------------------
(***************************************************************************)
(* A model of the jekyll_build utilities:                                  *)
(*   deploy.py          the rsync deployment wrapper                       *)
(*   jsonc.py           the loader of JSON with comments                   *)
(*   minify_html_js.py  the tree-walking HTML/JavaScript minifier          *)
(*                                                                         *)
(* Text is a sequence of one-character strings, so that startswith,        *)
(* endswith, substring tests, splitting and joining are computed as the    *)
(* Python code computes them.  An optional value (a key that may be        *)
(* missing, Python's None) is <<>> when missing and <<v>> when present.    *)
(***************************************************************************)
EXTENDS Integers, Sequences, FiniteSets, TLC

VARIABLES
    \* deploy.py
    dpc,            \* position of deploy.main
    osname,         \* os.name
    verbosity,      \* the module global set from JEKYLL_BUILD_VERBOSITY
    deploy_args,    \* the parsed arguments: source, config, dry_run
    c,              \* the GenericContainer built by main
    cmd,            \* the command list
    invocations,    \* the commands handed to check_call, in order
    returncode,     \* what the subprocess returned: <<>> before it has
    exit_code,      \* the exit status of the process: <<>> while it runs
    \* jsonc.py
    jpc,            \* "start", then which loader has returned
    doc,            \* the text handed to the loader
    result,         \* what the loader returned or raised
    \* minify_html_js.py
    mpc,            \* position of minify_html_js.main
    minify_args,    \* the parsed arguments
    content,        \* the content of every file of the tree
    stack,          \* the directories os.walk has still to yield, in order
    root,           \* the directory os.walk yielded last
    idx,            \* the place of the file loop in that directory's files
    walked,         \* the directories os.walk has yielded, in order
    log             \* what main did with each file, in order

deployVars == <<dpc, osname, verbosity, deploy_args, c, cmd, invocations,
                returncode, exit_code>>

jsoncVars == <<jpc, doc, result>>

minifyVars == <<mpc, minify_args, content, stack, root, idx, walked, log>>

vars == <<deployVars, jsoncVars, minifyVars>>

-----------------------------------------------------------------------------
(* Text helpers: str.startswith, str.endswith, the `in` operator, str().   *)

None == <<>>

Some(v) == <<v>>

StartsWith(s, p) ==
    Len(p) <= Len(s) /\ SubSeq(s, 1, Len(p)) = p

EndsWith(s, p) ==
    Len(p) <= Len(s) /\ SubSeq(s, Len(s) - Len(p) + 1, Len(s)) = p

Contains(s, p) ==
    \E i \in 0..(Len(s) - Len(p)) : SubSeq(s, i + 1, i + Len(p)) = p

DigitChars == <<"0", "1", "2", "3", "4", "5", "6", "7", "8", "9">>

RECURSIVE IntToStr(_)
IntToStr(n) ==
    IF n < 10 THEN <<DigitChars[n + 1]>>
    ELSE IntToStr(n \div 10) \o <<DigitChars[(n % 10) + 1]>>

RECURSIVE Join(_, _)
Join(sep, ss) ==
    IF ss = <<>> THEN <<>>
    ELSE IF Len(ss) = 1 THEN ss[1]
    ELSE ss[1] \o sep \o Join(sep, Tail(ss))

\* Python truthiness of an optional text or list: None, "" and [] are false.
Truthy(o) ==
    o /= None /\ o[1] /= <<>>

\* Python truthiness of an optional number: None and 0 are false.
TruthyInt(o) ==
    o /= None /\ o[1] /= 0

\* Python truthiness of an optional boolean: None and False are false.
TruthyBool(o) ==
    o /= None /\ o[1]

-----------------------------------------------------------------------------
(* deploy.py                                                               *)

\* The sequences of at most n elements of S.
SeqsUpTo(S, n) ==
    UNION {[1..k -> S] : k \in 0..n}

MaxItems == 2

SamplePort == 22

OptVerbose == <<"-", "-", "v", "e", "r", "b", "o", "s", "e">>

OptQuiet == <<"-", "-", "q", "u", "i", "e", "t">>

OptExcludeFrom ==
    <<"-", "-", "e", "x", "c", "l", "u", "d", "e", "-", "f", "r", "o", "m">>

OptExclude == <<"-", "-", "e", "x", "c", "l", "u", "d", "e">>

OptIncludeFrom ==
    <<"-", "-", "i", "n", "c", "l", "u", "d", "e", "-", "f", "r", "o", "m">>

OptInclude == <<"-", "-", "i", "n", "c", "l", "u", "d", "e">>

OptRsh == <<"-", "-", "r", "s", "h", "=", "s", "s", "h", " ", "-", "p">>

OptDelete == <<"-", "-", "d", "e", "l", "e", "t", "e">>

OptDryRun == <<"-", "-", "d", "r", "y", "-", "r", "u", "n">>

Rsync == <<"r", "s", "y", "n", "c">>

DefaultFlags == <<"-", "a", "v", "z">>

\* os.path.sep
PathSep ==
    IF osname = "nt" THEN <<"\\">> ELSE <<"/">>

\* A value that the config file gives as a string or as a list of strings.
AsStr(s) == [kind |-> "str", v |-> <<s>>]

AsList(l) == [kind |-> "list", v |-> l]

\* shlex.split of a string without quotes or escapes: the words between
\* runs of blanks.
RECURSIVE ShlexSplitFrom(_, _)
ShlexSplitFrom(s, word) ==
    IF s = <<>> THEN (IF word = <<>> THEN <<>> ELSE <<word>>)
    ELSE IF Head(s) = " "
         THEN (IF word = <<>> THEN <<>> ELSE <<word>>)
              \o ShlexSplitFrom(Tail(s), <<>>)
         ELSE ShlexSplitFrom(Tail(s), Append(word, Head(s)))

ShlexSplit(s) ==
    ShlexSplitFrom(s, <<>>)

\* dict.get(key, default) of an optional value.
Get(o, default) ==
    IF o = None THEN default ELSE o[1]

\* isinstance(x, str) and the two normalisations main applies.
SplitIfStr(x) ==
    IF x.kind = "str" THEN ShlexSplit(x.v[1]) ELSE x.v

WrapIfStr(x) ==
    IF x.kind = "str" THEN <<x.v[1]>> ELSE x.v

\* The container main fills from the config file and the command line.
MakeContainer(args) ==
    [site_dir     |-> args.source,
     user         |-> args.config.user,
     remote_path  |-> args.config.remote_path,
     delete       |-> TruthyBool(args.config.delete),
     port         |-> args.config.port,
     flags        |-> SplitIfStr(Get(args.config.flags, AsStr(DefaultFlags))),
     exclude      |-> WrapIfStr(Get(args.config.exclude, AsList(<<>>))),
     include      |-> WrapIfStr(Get(args.config.include, AsList(<<>>))),
     exclude_file |-> args.config.exclude_from,
     include_file |-> args.config.include_from]

VerbosityFlags ==
    IF verbosity = 1 THEN <<OptVerbose>>
    ELSE IF verbosity = -1 THEN <<OptQuiet>>
    ELSE <<>>

\* for f in items: cmd += [option, f]
RECURSIVE Pairs(_, _)
Pairs(option, items) ==
    IF items = <<>> THEN <<>>
    ELSE <<option, Head(items)>> \o Pairs(option, Tail(items))

ExcludeFlags(container) ==
    (IF Truthy(container.exclude_file)
     THEN <<OptExcludeFrom, container.exclude_file[1]>> ELSE <<>>)
    \o Pairs(OptExclude, container.exclude)

IncludeFlags(container) ==
    (IF Truthy(container.include_file)
     THEN <<OptIncludeFrom, container.include_file[1]>> ELSE <<>>)
    \o Pairs(OptInclude, container.include)

\* A plausible slip: the remote shell option given whenever a port is set.
RshFlagsPortOnly(container) ==
    IF TruthyInt(container.port)
    THEN <<OptRsh \o IntToStr(container.port[1])>>
    ELSE <<>>

RshFlags(container) ==
    IF Truthy(container.user) /\ TruthyInt(container.port)
    THEN <<OptRsh \o IntToStr(container.port[1])>>
    ELSE <<>>

DeleteFlags(container) ==
    IF container.delete THEN <<OptDelete>> ELSE <<>>

LocalArg(container) ==
    IF ~EndsWith(container.site_dir, PathSep)
       /\ ~EndsWith(container.site_dir, <<"/">>)
    THEN container.site_dir \o PathSep
    ELSE container.site_dir

\* ':'.join(remote) raises TypeError when an element is None.
RemoteRaises(container) ==
    container.remote_path = None

RemoteArg(container) ==
    IF Truthy(container.user)
    THEN container.user[1] \o <<":">> \o container.remote_path[1]
    ELSE container.remote_path[1]

make_rsync_cmd(container) ==
    <<Rsync>>
    \o VerbosityFlags
    \o container.flags
    \o ExcludeFlags(container)
    \o IncludeFlags(container)
    \o RshFlags(container)
    \o DeleteFlags(container)
    \o <<LocalArg(container), RemoteArg(container)>>

\* cmd.insert(1, '--dry-run')
InsertDryRun(l) ==
    <<Head(l), OptDryRun>> \o Tail(l)

\* The inputs.
ItemSet == {<<"a">>, <<"b">>}

FlagValues == {None, Some(AsStr(<<"-", "a", " ", "-", "z">>)), Some(AsList(<<>>))}

ExcludeValues ==
    {None, Some(AsStr(<<"a">>))}
    \cup {Some(AsList(l)) : l \in SeqsUpTo(ItemSet, MaxItems) \ {<<>>}}

IncludeValues ==
    {None} \cup {Some(AsList(l)) : l \in SeqsUpTo({<<"i">>}, MaxItems) \ {<<>>}}

Configs ==
    [method       : {None, Some(Rsync), Some(<<"f", "t", "p">>)},
     user         : {None, Some(<<"b", "o", "b">>)},
     remote_path  : {None, Some(<<"/", "w">>)},
     delete       : {None, Some(TRUE)},
     port         : {None, Some(SamplePort)},
     flags        : FlagValues,
     exclude      : ExcludeValues,
     include      : IncludeValues,
     exclude_from : {None, Some(<<"x">>)},
     include_from : {None, Some(<<"n">>)}]

\* What os.path.abspath gives on each platform: an absolute path, which
\* ends with the separator only when it is a root.
Sources ==
    {<<"posix", <<"/", "s">> >>, <<"posix", <<"/">> >>,
     <<"nt", <<"C", ":", "\\", "s">> >>, <<"nt", <<"C", ":", "\\">> >>}

ReturnCodes == {0, 1, 23}

NoContainer == <<>>

InitDeploy ==
    /\ dpc = "main"
    /\ \E s \in Sources :
          /\ osname = s[1]
          /\ \E cfg \in Configs, dry \in BOOLEAN :
                deploy_args = [source |-> s[2], config |-> cfg, dry_run |-> dry]
    /\ verbosity \in {-1, 0, 1}
    /\ c = NoContainer
    /\ cmd = <<>>
    /\ invocations = <<>>
    /\ returncode = None
    /\ exit_code = None

\* main: the method is not rsync, and exit(message) ends the process with
\* status 1.
MethodRejected ==
    /\ dpc = "main"
    /\ Get(deploy_args.config.method, <<>>) /= Rsync
    /\ dpc' = "exited"
    /\ exit_code' = Some(1)
    /\ UNCHANGED <<osname, verbosity, deploy_args, c, cmd, invocations,
                   returncode>>
    /\ UNCHANGED <<jsoncVars, minifyVars>>

\* main: the container is filled.
FillContainer ==
    /\ dpc = "main"
    /\ Get(deploy_args.config.method, <<>>) = Rsync
    /\ c' = MakeContainer(deploy_args)
    /\ dpc' = "make_cmd"
    /\ UNCHANGED <<osname, verbosity, deploy_args, cmd, invocations,
                   returncode, exit_code>>
    /\ UNCHANGED <<jsoncVars, minifyVars>>

\* main: cmd = make_rsync_cmd(c); an exception it raises is not caught, and
\* ends the process with a traceback and status 1.
MakeCmd ==
    /\ dpc = "make_cmd"
    /\ IF RemoteRaises(c)
       THEN /\ dpc' = "exited"
            /\ exit_code' = Some(1)
            /\ cmd' = cmd
       ELSE /\ dpc' = "check_call"
            /\ cmd' = make_rsync_cmd(c)
            /\ exit_code' = exit_code
    /\ UNCHANGED <<osname, verbosity, deploy_args, c, invocations, returncode>>
    /\ UNCHANGED <<jsoncVars, minifyVars>>

\* What main does with the subprocess's status.
ExitCodeFor(rc) ==
    IF rc = 0 THEN 0 ELSE 32

\* main: check_call(cmd) returns (status 0) or raises CalledProcessError
\* (any other status).
CheckCall ==
    /\ dpc = "check_call"
    /\ \E rc \in ReturnCodes :
          /\ returncode' = Some(rc)
          /\ exit_code' = Some(ExitCodeFor(rc))
    /\ invocations' =
          Append(invocations,
                 IF deploy_args.dry_run THEN InsertDryRun(cmd) ELSE cmd)
    /\ dpc' = "exited"
    /\ UNCHANGED <<osname, verbosity, deploy_args, c, cmd>>
    /\ UNCHANGED <<jsoncVars, minifyVars>>

\* main: check_call(cmd) cannot start the program (OSError), which main
\* does not catch.
CheckCallOSError ==
    /\ dpc = "check_call"
    /\ invocations' =
          Append(invocations,
                 IF deploy_args.dry_run THEN InsertDryRun(cmd) ELSE cmd)
    /\ exit_code' = Some(1)
    /\ dpc' = "exited"
    /\ UNCHANGED <<osname, verbosity, deploy_args, c, cmd, returncode>>
    /\ UNCHANGED <<jsoncVars, minifyVars>>

NextDeploy ==
    \/ MethodRejected
    \/ FillContainer
    \/ MakeCmd
    \/ CheckCall
    \/ CheckCallOSError

-----------------------------------------------------------------------------
(* jsonc.py                                                                *)

BlockOpen == <<"/", "*">>

BlockClose == <<"*", "/">>

LineComment == <<"/", "/">>

\* The whitespace str.strip() removes and the JSON parser skips.
WsChars == {" ", "\t", "\n", "\r"}

\* The length of the leftmost shortest match of /\*.*?\*/ at the start of
\* s, or 0 when the pattern does not match there.
BlockMatchLen(s) ==
    IF ~StartsWith(s, BlockOpen) THEN 0
    ELSE LET ends == {j \in 3..(Len(s) - 1) : SubSeq(s, j, j + 1) = BlockClose}
         IN  IF ends = {} THEN 0
             ELSE (CHOOSE j \in ends : \A k \in ends : j <= k) + 1

\* multiline_comments.sub('', string)
RECURSIVE RemoveBlockComments(_)
RemoveBlockComments(s) ==
    IF s = <<>> THEN <<>>
    ELSE LET n == BlockMatchLen(s)
         IN  IF n > 0 THEN RemoveBlockComments(SubSeq(s, n + 1, Len(s)))
             ELSE <<Head(s)>> \o RemoveBlockComments(Tail(s))

\* line_endings.split(string) with line_endings = [\r\n]+ : the pieces
\* between runs of line-ending characters, an empty piece before a leading
\* run and after a trailing one.
RECURSIVE SplitLineEndings(_, _, _)
SplitLineEndings(s, piece, inRun) ==
    IF s = <<>> THEN <<piece>>
    ELSE IF Head(s) \in {"\r", "\n"}
         THEN (IF inRun THEN <<>> ELSE <<piece>>)
              \o SplitLineEndings(Tail(s), <<>>, TRUE)
         ELSE SplitLineEndings(Tail(s), Append(piece, Head(s)), FALSE)

\* str.strip()
RECURSIVE LStrip(_)
LStrip(s) ==
    IF s /= <<>> /\ Head(s) \in WsChars THEN LStrip(Tail(s)) ELSE s

RECURSIVE RStrip(_)
RStrip(s) ==
    IF s /= <<>> /\ s[Len(s)] \in WsChars
    THEN RStrip(SubSeq(s, 1, Len(s) - 1)) ELSE s

Strip(s) ==
    RStrip(LStrip(s))

\* i for i in lines if not i.strip().startswith('//')
KeptLines(lines) ==
    SelectSeq(lines, LAMBDA l : ~StartsWith(Strip(l), LineComment))

\* json.loads, for the JSON texts over the model's characters: a string
\* without escapes, or an array of such strings.  A raw control character
\* inside a string, a missing bracket, quote or comma, or text after the
\* value, is a JSONDecodeError.
JsonError == [kind |-> "JSONDecodeError", items |-> <<>>]

RECURSIVE SkipWs(_, _)
SkipWs(s, i) ==
    IF i <= Len(s) /\ s[i] \in WsChars THEN SkipWs(s, i + 1) ELSE i

\* The place of the quote that closes the string whose content starts at i,
\* or 0.
RECURSIVE StringEnd(_, _)
StringEnd(s, i) ==
    IF i > Len(s) THEN 0
    ELSE IF s[i] = "\"" THEN i
    ELSE IF s[i] \in {"\n", "\r", "\t", "\\"} THEN 0
    ELSE StringEnd(s, i + 1)

AtEnd(s, i) ==
    SkipWs(s, i) > Len(s)

RECURSIVE ParseItems(_, _, _)
ParseItems(s, i0, acc) ==
    LET i == SkipWs(s, i0)
    IN  IF i > Len(s) \/ s[i] /= "\"" THEN JsonError
        ELSE LET e == StringEnd(s, i + 1)
             IN  IF e = 0 THEN JsonError
                 ELSE LET item == SubSeq(s, i + 1, e - 1)
                          j == SkipWs(s, e + 1)
                      IN  IF j > Len(s) THEN JsonError
                          ELSE IF s[j] = "," THEN ParseItems(s, j + 1, Append(acc, item))
                          ELSE IF s[j] = "]" /\ AtEnd(s, j + 1)
                               THEN [kind |-> "array", items |-> Append(acc, item)]
                          ELSE JsonError

JsonLoads(s) ==
    LET i == SkipWs(s, 1)
    IN  IF i > Len(s) THEN JsonError
        ELSE IF s[i] = "["
             THEN LET j == SkipWs(s, i + 1)
                  IN  IF j <= Len(s) /\ s[j] = "]" /\ AtEnd(s, j + 1)
                      THEN [kind |-> "array", items |-> <<>>]
                      ELSE ParseItems(s, i + 1, <<>>)
        ELSE IF s[i] = "\""
             THEN LET e == StringEnd(s, i + 1)
                  IN  IF e > 0 /\ AtEnd(s, e + 1)
                      THEN [kind |-> "string", items |-> <<SubSeq(s, i + 1, e - 1)>>]
                      ELSE JsonError
        ELSE JsonError

\* loads(string)
loads(string) ==
    JsonLoads(Join(<<"\n">>,
                   KeptLines(SplitLineEndings(RemoveBlockComments(string),
                                              <<>>, FALSE))))

\* load(filename) hands loads the list f.readlines() returns, and
\* multiline_comments.sub raises TypeError on a list.
load(text) ==
    [kind |-> "TypeError", items |-> <<>>]

\* The documents: an array of two strings, one element to a line, with
\* comment lines between them.
Quoted(v) == <<"\"">> \o v \o <<"\"">>

Values ==
    {<<"a">>, <<"/", "*">>, <<"*", "/">>, <<"a", "/", "*", "b", "*", "/", "c">>,
     <<"/", "/", "a">>}

CommentLines ==
    {<<"/", "/", "c">>, <<" ", "/", "/", " ", "/", "*">>,
     <<"\t", "/", "/", "*", "/">>}

LineEndings == {<<"\n">>, <<"\r", "\n">>}

DocLines(v1, v2, c1, c2) ==
    <<<<"[">>>> \o c1 \o <<Quoted(v1) \o <<",">>>> \o c2
    \o <<Quoted(v2)>> \o <<<<"]">>>>

Docs ==
    {Join(eol, DocLines(v1, v2, c1, c2)) :
        v1 \in Values, v2 \in Values,
        c1 \in SeqsUpTo(CommentLines, 1), c2 \in SeqsUpTo(CommentLines, 1),
        eol \in LineEndings}

NoResult == [kind |-> "none", items |-> <<>>]

InitJsonc ==
    /\ jpc = "start"
    /\ doc \in Docs
    /\ result = NoResult

\* A caller calls loads(doc).
Loads ==
    /\ jpc = "start"
    /\ result' = loads(doc)
    /\ jpc' = "loads"
    /\ UNCHANGED doc
    /\ UNCHANGED <<deployVars, minifyVars>>

\* A caller calls load(filename) on a file that holds doc.
Load ==
    /\ jpc = "start"
    /\ result' = load(doc)
    /\ jpc' = "load"
    /\ UNCHANGED doc
    /\ UNCHANGED <<deployVars, minifyVars>>

NextJsonc ==
    \/ Loads
    \/ Load


-----------------------------------------------------------------------------
(* minify_html_js.py                                                       *)

Max429 == 2

SleepSeconds == 90

TooManyRequests == 429

ErrorMarker == <<"/", "/", " ", "E", "r", "r", "o", "r">>

DotHtml == <<".", "h", "t", "m", "l">>

DotJs == <<".", "j", "s">>

DotMjs == <<".", "m", "j", "s">>

\* s.split(',')
RECURSIVE SplitComma(_, _)
SplitComma(s, piece) ==
    IF s = <<>> THEN <<piece>>
    ELSE IF Head(s) = ","
         THEN <<piece>> \o SplitComma(Tail(s), <<>>)
         ELSE SplitComma(Tail(s), Append(piece, Head(s)))

\* while len(parts) > 0 and len(parts[-1]) == 0: del parts[-1]
RECURSIVE DropTrailingEmpty(_)
DropTrailingEmpty(parts) ==
    IF Len(parts) > 0 /\ Len(parts[Len(parts)]) = 0
    THEN DropTrailingEmpty(SubSeq(parts, 1, Len(parts) - 1))
    ELSE parts

comma_separated_string(s) ==
    DropTrailingEmpty(SplitComma(s, <<>>))

comma_separated_extensions(s) ==
    LET parts == comma_separated_string(s)
    IN  [i \in 1..Len(parts) |-> <<".">> \o parts[i]]

\* os.path.join(root, name) for a relative name, on a POSIX system.
PathJoin(dir, name) ==
    IF dir = <<>> \/ EndsWith(dir, <<"/">>) THEN dir \o name
    ELSE dir \o <<"/">> \o name

\* The tree under the root directory: each directory's subdirectories and
\* files, in the order os.walk lists them.
RootDir == <<"r">>

DirN == <<"r", "/", "_", "n">>

DirNK == <<"r", "/", "_", "n", "/", "k">>

DirK == <<"r", "/", "k">>

Dirs == {RootDir, DirN, DirNK, DirK}

Tree ==
    [d \in Dirs |->
        CASE d = RootDir ->
                [dirs  |-> <<<<"_", "n">>, <<"k">>>>,
                 files |-> <<<<"x", ".", "j", "s">>,
                             <<"_", "b", ".", "h", "t", "m", "l">>,
                             <<"a", ".", "h", "t", "m", "l">>>>]
          [] d = DirN ->
                [dirs  |-> <<<<"k">>>>,
                 files |-> <<<<"d", ".", "h", "t", "m", "l">>>>]
          [] d = DirNK ->
                [dirs  |-> <<>>,
                 files |-> <<<<"e", ".", "j", "s">>>>]
          [] d = DirK ->
                [dirs  |-> <<>>,
                 files |-> <<<<"m", ".", "m", "i", "n", ".", "m", "j", "s">>>>]]

FilesOf(d) ==
    {PathJoin(d, Tree[d].files[i]) : i \in 1..Len(Tree[d].files)}

AllFiles ==
    UNION {FilesOf(d) : d \in Dirs}

SubDirs(d) ==
    [i \in 1..Len(Tree[d].dirs) |-> PathJoin(d, Tree[d].dirs[i])]

\* What every file holds before the run.
OrigContent(f) ==
    <<"<", " ", ">">> \o f

\* htmlmin's result for a text: the library removes comments and collapses
\* the whitespace that does not matter; here, the blanks.
HtmlMinified(text) ==
    SelectSeq(text, LAMBDA ch : ch /= " ")

\* The bodies the minification service answers a 200 with: minified source,
\* an error report, and source that begins almost like an error report.
Bodies ==
    {<<"v", "=", "1">>,
     ErrorMarker \o <<":", "x">>,
     <<"/", "/", "E", "r", "r", "o", "r">>}

\* A plausible slip: only the directory's own name is searched, not the path
\* that leads to it.
RECURSIVE LastComponent(_)
LastComponent(path) ==
    IF \E i \in 1..Len(path) : path[i] = "/"
    THEN LastComponent(Tail(path)) ELSE path

DirOmittedByOwnName(dir) ==
    \E i \in 1..Len(minify_args.omit_dirname_includes) :
        Contains(LastComponent(dir), minify_args.omit_dirname_includes[i])

\* any(dirname in root for dirname in args.omit_dirname_includes)
DirOmitted(dir) ==
    \E i \in 1..Len(minify_args.omit_dirname_includes) :
        Contains(dir, minify_args.omit_dirname_includes[i])

\* file_.startswith(args.omit_filename_starts_with)
OmittedByStart(file_) ==
    \E i \in 1..Len(minify_args.omit_filename_starts_with) :
        StartsWith(file_, minify_args.omit_filename_starts_with[i])

\* any(name in file_ for name in args.omit_filename_includes)
OmittedByName(file_) ==
    \E i \in 1..Len(minify_args.omit_filename_includes) :
        Contains(file_, minify_args.omit_filename_includes[i])

\* file_.endswith(args.extensions)
HasExtension(file_) ==
    \E i \in 1..Len(minify_args.extensions) :
        EndsWith(file_, minify_args.extensions[i])

\* A plausible slip: the .mjs extension forgotten.
IsJsSourceJsOnly(filename) ==
    EndsWith(filename, DotJs)

\* filename.endswith('.js') or filename.endswith('.mjs')
IsJsSource(filename) ==
    EndsWith(filename, DotJs) \/ EndsWith(filename, DotMjs)

\* What the body of the file loop does with a file: "js" and "html" call the
\* minifier, "skip" goes on to the next file.
Route(dir, file_) ==
    IF OmittedByStart(file_) THEN "skip"
    ELSE IF OmittedByName(file_) THEN "skip"
    ELSE IF ~HasExtension(file_) THEN "skip"
    ELSE IF IsJsSource(PathJoin(dir, file_))
         THEN (IF minify_args.js THEN "js" ELSE "skip")
         ELSE (IF minify_args.html THEN "html" ELSE "skip")

\* minify_html_file, when nothing raises: what the file holds afterwards.
HtmlContentAfter(old, dry_run) ==
    IF dry_run THEN old ELSE HtmlMinified(old)

HtmlResult(dry_run) ==
    IF dry_run THEN "dry_run" ELSE "written"

\* A plausible slip: the dry-run flag not looked at before writing.
JsContentAfterNoDryRun(old, text, dry_run) ==
    IF ~StartsWith(text, ErrorMarker) THEN text ELSE old

\* minify_js_file, on a 200 response with the body text: what the file holds
\* afterwards.
JsContentAfter(old, text, dry_run) ==
    IF ~StartsWith(text, ErrorMarker)
    THEN (IF dry_run THEN old ELSE text)
    ELSE old

JsResult(text, dry_run) ==
    IF ~StartsWith(text, ErrorMarker)
    THEN (IF dry_run THEN "dry_run" ELSE "written")
    ELSE "error_body"

\* A plausible slip: no retry after a rate limit answer.
PcAfterJsNoRetry(res) ==
    "files"

\* A plausible slip: every failed request retried like a rate limit answer.
PcAfterJsRetryFailures(res) ==
    IF res \in {"429", "http_error", "transport_error"} THEN "sleep" ELSE "files"

\* main, after minify_js_file returned: while result == 429 it sleeps and
\* calls again, otherwise the file loop goes on.
PcAfterJs(res) ==
    IF res = "429" THEN "sleep" ELSE "files"

Event(ev, file, res, body, secs) ==
    [ev |-> ev, file |-> file, result |-> res, body |-> body, secs |-> secs]

CurFile == Tree[root].files[idx]

CurPath == PathJoin(root, CurFile)

\* The 429 answers the file has had so far.
Count429(file) ==
    Cardinality({i \in 1..Len(log) : log[i].file = file /\ log[i].result = "429"})

\* The command lines: an option that is not given has its default.
ExtensionArgs ==
    {None, Some(<<"h", "t", "m", "l", ",", "j", "s", ",", "m", "j", "s", ",">>),
     Some(<<"j", "s">>)}

StartsWithArgs == {None, Some(<<"_", ",">>)}

FileIncludesArgs == {None, Some(<<"m", "i", "n">>)}

DirIncludesArgs == {None, Some(<<"_", "n">>)}

ParsedArgs(h, j, e, f, fi, d, n) ==
    [root |-> RootDir,
     html |-> h,
     js |-> j,
     extensions |->
        IF e = None THEN <<DotHtml>> ELSE comma_separated_extensions(e[1]),
     omit_filename_starts_with |->
        IF f = None THEN <<>> ELSE comma_separated_string(f[1]),
     omit_filename_includes |->
        IF fi = None THEN <<>> ELSE comma_separated_string(fi[1]),
     omit_dirname_includes |->
        IF d = None THEN <<>> ELSE comma_separated_string(d[1]),
     dry_run |-> n]

InitMinify ==
    /\ mpc = "walk"
    /\ \E h \in BOOLEAN, j \in BOOLEAN, n \in BOOLEAN, e \in ExtensionArgs,
          f \in StartsWithArgs, fi \in FileIncludesArgs, d \in DirIncludesArgs :
             minify_args = ParsedArgs(h, j, e, f, fi, d, n)
    /\ content = [f \in AllFiles |-> OrigContent(f)]
    /\ stack = <<RootDir>>
    /\ root = <<>>
    /\ idx = 0
    /\ walked = <<>>
    /\ log = <<>>


\* os.walk has no directory left: main returns.
WalkDone ==
    /\ mpc = "walk"
    /\ stack = <<>>
    /\ mpc' = "done"
    /\ UNCHANGED <<minify_args, content, stack, root, idx, walked, log>>
    /\ UNCHANGED <<deployVars, jsoncVars>>

\* os.walk yields the next directory, top down; main leaves the list of its
\* subdirectories as it is, so os.walk goes on into each of them.  A
\* directory whose path holds an omitted name is passed over by `continue`.
WalkNext ==
    /\ mpc = "walk"
    /\ stack /= <<>>
    /\ LET dir == Head(stack)
       IN  /\ walked' = Append(walked, dir)
           /\ stack' = SubDirs(dir) \o Tail(stack)
           /\ root' = dir
           /\ IF DirOmitted(dir)
              THEN mpc' = "walk" /\ idx' = idx
              ELSE mpc' = "files" /\ idx' = 1
    /\ UNCHANGED <<minify_args, content, log>>
    /\ UNCHANGED <<deployVars, jsoncVars>>

\* The file loop has passed the directory's last file.
FilesDone ==
    /\ mpc = "files"
    /\ idx > Len(Tree[root].files)
    /\ mpc' = "walk"
    /\ UNCHANGED <<minify_args, content, stack, root, idx, walked, log>>
    /\ UNCHANGED <<deployVars, jsoncVars>>

\* The file loop passes over a file: a filter excludes it, or the minifier
\* for its kind is not enabled.
SkipFile ==
    /\ mpc = "files"
    /\ idx <= Len(Tree[root].files)
    /\ Route(root, CurFile) = "skip"
    /\ log' = Append(log, Event("skip", CurPath, "skipped", <<>>, 0))
    /\ idx' = idx + 1
    /\ UNCHANGED <<mpc, minify_args, content, stack, root, walked>>
    /\ UNCHANGED <<deployVars, jsoncVars>>

AtHtmlFile ==
    /\ mpc = "files"
    /\ idx <= Len(Tree[root].files)
    /\ Route(root, CurFile) = "html"

\* minify_html_file(filename, args.dry_run) returns.
MinifyHtml ==
    /\ AtHtmlFile
    /\ content' = [content EXCEPT
                      ![CurPath] = HtmlContentAfter(@, minify_args.dry_run)]
    /\ log' = Append(log, Event("html", CurPath, HtmlResult(minify_args.dry_run),
                                <<>>, 0))
    /\ idx' = idx + 1
    /\ UNCHANGED <<mpc, minify_args, stack, root, walked>>
    /\ UNCHANGED <<deployVars, jsoncVars>>

\* minify_html_file raises: open or f.read() (the file cannot be opened for
\* update, or is not UTF-8), minifier.input, or minifier.finalize.  The
\* last is called after f.truncate(), and only when dry_run is off.  main
\* catches nothing, so the run ends with a traceback.
MinifyHtmlRaises ==
    /\ AtHtmlFile
    /\ \E where \in {"raised_open", "raised_input", "raised_finalize"} :
          /\ where = "raised_finalize" => ~minify_args.dry_run
          /\ content' = [content EXCEPT
                            ![CurPath] = IF where = "raised_finalize"
                                         THEN <<>> ELSE @]
          /\ log' = Append(log, Event("html", CurPath, where, <<>>, 0))
    /\ mpc' = "crashed"
    /\ UNCHANGED <<minify_args, stack, root, idx, walked>>
    /\ UNCHANGED <<deployVars, jsoncVars>>

\* main is about to call minify_js_file: for the first time on the file the
\* loop is at, or again after a sleep.
AtJsCall ==
    \/ /\ mpc = "files"
       /\ idx <= Len(Tree[root].files)
       /\ Route(root, CurFile) = "js"
    \/ mpc = "retry"

\* minify_js_file: the service answers 200 with a body.
MinifyJs ==
    /\ AtJsCall
    /\ \E text \in Bodies :
          /\ content' = [content EXCEPT
                            ![CurPath] = JsContentAfter(@, text, minify_args.dry_run)]
          /\ log' = Append(log, Event("js", CurPath,
                                      JsResult(text, minify_args.dry_run), text, 0))
    /\ mpc' = "files"
    /\ idx' = idx + 1
    /\ UNCHANGED <<minify_args, stack, root, walked>>
    /\ UNCHANGED <<deployVars, jsoncVars>>

\* minify_js_file: the service answers 429, and minify_js_file returns 429.
MinifyJs429 ==
    /\ AtJsCall
    /\ Count429(CurPath) < Max429
    /\ log' = Append(log, Event("js", CurPath, "429", <<>>, 0))
    /\ mpc' = PcAfterJs("429")
    /\ idx' = IF PcAfterJs("429") = "sleep" THEN idx ELSE idx + 1
    /\ UNCHANGED <<minify_args, content, stack, root, walked>>
    /\ UNCHANGED <<deployVars, jsoncVars>>

\* main: time.sleep(90) in the rate limit loop.
Sleep ==
    /\ mpc = "sleep"
    /\ log' = Append(log, Event("sleep", CurPath, "slept", <<>>, SleepSeconds))
    /\ mpc' = "retry"
    /\ UNCHANGED <<minify_args, content, stack, root, idx, walked>>
    /\ UNCHANGED <<deployVars, jsoncVars>>

\* minify_js_file: raise_for_status raises HTTPError for a status other
\* than 429; the error is printed and the function returns None.
MinifyJsHTTPError ==
    /\ AtJsCall
    /\ \E status \in {404, 500} :
          /\ status /= TooManyRequests
          /\ log' = Append(log, Event("js", CurPath, "http_error", <<>>, 0))
    /\ mpc' = PcAfterJs("http_error")
    /\ idx' = IF PcAfterJs("http_error") = "sleep" THEN idx ELSE idx + 1
    /\ UNCHANGED <<minify_args, content, stack, root, walked>>
    /\ UNCHANGED <<deployVars, jsoncVars>>

\* minify_js_file: requests.post raises ConnectionError, Timeout or
\* TooManyRedirects; the error is printed and the function returns None.
MinifyJsTransportError ==
    /\ AtJsCall
    /\ \E e \in {"ConnectionError", "Timeout", "TooManyRedirects"} :
          log' = Append(log, Event("js", CurPath, "transport_error", <<>>, 0))
    /\ mpc' = PcAfterJs("transport_error")
    /\ idx' = IF PcAfterJs("transport_error") = "sleep" THEN idx ELSE idx + 1
    /\ UNCHANGED <<minify_args, content, stack, root, walked>>
    /\ UNCHANGED <<deployVars, jsoncVars>>

\* minify_js_file raises what it does not catch: open or f.read(), or
\* another error of the request.  The file has not been written yet.
MinifyJsRaises ==
    /\ AtJsCall
    /\ log' = Append(log, Event("js", CurPath, "raised", <<>>, 0))
    /\ mpc' = "crashed"
    /\ UNCHANGED <<minify_args, content, stack, root, idx, walked>>
    /\ UNCHANGED <<deployVars, jsoncVars>>

NextMinify ==
    \/ WalkDone
    \/ WalkNext
    \/ FilesDone
    \/ SkipFile
    \/ MinifyHtml
    \/ MinifyHtmlRaises
    \/ MinifyJs
    \/ MinifyJs429
    \/ Sleep
    \/ MinifyJsHTTPError
    \/ MinifyJsTransportError
    \/ MinifyJsRaises

-----------------------------------------------------------------------------
(* The three programs run apart: each specification holds the state of the *)
(* other two still.                                                        *)

DeployIdle ==
    /\ dpc = "idle"
    /\ osname = "posix"
    /\ verbosity = 0
    /\ deploy_args = <<>>
    /\ c = NoContainer
    /\ cmd = <<>>
    /\ invocations = <<>>
    /\ returncode = None
    /\ exit_code = None

JsoncIdle ==
    /\ jpc = "idle"
    /\ doc = <<>>
    /\ result = NoResult

MinifyIdle ==
    /\ mpc = "idle"
    /\ minify_args = <<>>
    /\ content = <<>>
    /\ stack = <<>>
    /\ root = <<>>
    /\ idx = 0
    /\ walked = <<>>
    /\ log = <<>>

InitDeployRun ==
    InitDeploy /\ JsoncIdle /\ MinifyIdle

InitJsoncRun ==
    InitJsonc /\ DeployIdle /\ MinifyIdle

InitMinifyRun ==
    InitMinify /\ DeployIdle /\ JsoncIdle

SpecDeploy ==
    InitDeployRun /\ [][NextDeploy]_vars

SpecJsonc ==
    InitJsoncRun /\ [][NextJsonc]_vars

SpecMinify ==
    InitMinifyRun /\ [][NextMinify]_vars

\* main runs on until it returns or an exception ends it: a step that can
\* be taken is taken.
FairMinify ==
    SpecMinify /\ WF_vars(NextMinify)

-----------------------------------------------------------------------------
(* Claims about deploy.py                                                  *)

\* The list the command builder is to return for a container, written
\* position by position.  "Set" is Python truthiness.
ExpectedPairs(option, items) ==
    [i \in 1..(2 * Len(items)) |->
        IF i % 2 = 1 THEN option ELSE items[i \div 2]]

ExpectedLocal(container) ==
    IF container.site_dir[Len(container.site_dir)] \in {PathSep[1], "/"}
    THEN container.site_dir
    ELSE Append(container.site_dir, PathSep[1])

ExpectedRemote(container) ==
    IF container.user \notin {None, Some(<<>>)}
    THEN Join(<<":">>, <<container.user[1], container.remote_path[1]>>)
    ELSE container.remote_path[1]

ExpectedCmd(container) ==
    <<Rsync>>
    \o (CASE verbosity = 1 -> <<OptVerbose>>
          [] verbosity = -1 -> <<OptQuiet>>
          [] verbosity = 0 -> <<>>)
    \o container.flags
    \o (IF container.exclude_file \notin {None, Some(<<>>)}
        THEN <<OptExcludeFrom, container.exclude_file[1]>> ELSE <<>>)
    \o ExpectedPairs(OptExclude, container.exclude)
    \o (IF container.include_file \notin {None, Some(<<>>)}
        THEN <<OptIncludeFrom, container.include_file[1]>> ELSE <<>>)
    \o ExpectedPairs(OptInclude, container.include)
    \o (IF container.user \notin {None, Some(<<>>)}
           /\ container.port \notin {None, Some(0)}
        THEN <<OptRsh \o IntToStr(container.port[1])>> ELSE <<>>)
    \o (IF container.delete THEN <<OptDelete>> ELSE <<>>)
    \o <<ExpectedLocal(container)>>
    \o <<ExpectedRemote(container)>>

\* C1: for every container with its required fields and every verbosity,
\* the list make_rsync_cmd returns is exactly: rsync, the verbosity flag,
\* the extra flags, the exclude-from pair, the exclude pairs in order, the
\* include-from pair, the include pairs in order, the single --rsh token iff
\* user and port are both set, --delete iff set, the local path (with the
\* separator after it when it does not end with one), and last the remote
\* target, user:remote_path or remote_path alone.
C1_CommandOrder ==
    dpc = "check_call" =>
        /\ cmd = ExpectedCmd(c)
        /\ cmd[Len(cmd)] = ExpectedRemote(c)
        /\ (c.user = None => cmd[Len(cmd)] = c.remote_path[1])
        /\ Cardinality({i \in 1..Len(cmd) : StartsWith(cmd[i], OptRsh)})
              = (IF c.user = None \/ c.port = None THEN 0 ELSE 1)

\* A command built from a container with a user, a port, two excludes in an
\* order that matters, includes, both list files and the delete flag.
C1_Witness ==
    /\ dpc = "check_call"
    /\ verbosity = 1
    /\ c.user /= None /\ c.port /= None /\ c.delete
    /\ c.exclude = <<<<"b">>, <<"a">>>>
    /\ Len(c.include) = 2
    /\ c.exclude_file /= None /\ c.include_file /= None
    /\ Len(c.flags) = 2
    /\ Len(cmd) = 20

\* C7: a method other than rsync ends the process with a non-zero status
\* and no subprocess; otherwise the subprocess is invoked exactly once and
\* the process exits with 0 when it returned zero and with 32 when it
\* returned anything else.
C7_ExitOutcomes ==
    /\ Len(invocations) <= 1
    /\ dpc = "exited" =>
          IF Get(deploy_args.config.method, <<>>) /= Rsync
          THEN exit_code /= Some(0) /\ invocations = <<>>
          ELSE /\ Len(invocations) = 1
               /\ returncode /= None
               /\ exit_code = (IF returncode = Some(0) THEN Some(0) ELSE Some(32))

LetterChars ==
    {"A", "B", "C", "D", "E", "F", "G", "H", "I", "J", "K", "L", "M", "N", "O",
     "P", "Q", "R", "S", "T", "U", "V", "W", "X", "Y", "Z"}

DriveLetterPrefix(path) ==
    Len(path) >= 2 /\ path[1] \in LetterChars /\ path[2] = ":"

\* C9: on a platform where the synchronization tool mishandles them, a local
\* path that begins with a drive letter and a colon makes the command
\* builder fail: no command is built and none is invoked.
C9_PlatformGuard ==
    (osname = "nt" /\ DriveLetterPrefix(deploy_args.source)) =>
        (cmd = <<>> /\ invocations = <<>>)

-----------------------------------------------------------------------------
(* Claims about jsonc.py                                                   *)

\* The text with only its comment lines removed: the lines, as the line
\* feeds divide them, that begin with // once trimmed.
RECURSIVE LinesOf(_, _)
LinesOf(text, line) ==
    IF text = <<>> THEN <<line>>
    ELSE IF Head(text) = "\n" THEN <<line>> \o LinesOf(Tail(text), <<>>)
    ELSE LinesOf(Tail(text), Append(line, Head(text)))

IsCommentLine(line) ==
    \E k \in 0..Len(line) :
        /\ \A i \in 1..k : line[i] \in WsChars
        /\ k + 2 <= Len(line)
        /\ line[k + 1] = "/" /\ line[k + 2] = "/"

RemoveCommentLinesOnly(text) ==
    Join(<<"\n">>, SelectSeq(LinesOf(text, <<>>), LAMBDA l : ~IsCommentLine(l)))

WellFormed(text) ==
    JsonLoads(RemoveCommentLinesOnly(text)).kind \in {"array", "string"}

\* C6: for every well-formed JSON document with comment lines, what the
\* loader returns is the JSON value of the document with only its comment
\* lines removed, string values included.
C6_LoaderKeepsContent ==
    (jpc \in {"loads", "load"} /\ WellFormed(doc)) =>
        result = JsonLoads(RemoveCommentLinesOnly(doc))

-----------------------------------------------------------------------------
(* Claims about minify_html_js.py                                          *)

LogIdx == 1..Len(log)

Range(seq) == {seq[i] : i \in 1..Len(seq)}

JsCalled == {log[i].file : i \in {k \in LogIdx : log[k].ev = "js"}}

HtmlCalled == {log[i].file : i \in {k \in LogIdx : log[k].ev = "html"}}

Visited == {log[i].file : i \in LogIdx}

Marked(text) ==
    Len(text) >= 8 /\ SubSeq(text, 1, 8) = ErrorMarker

\* C2: a file is truncated only after a minification result has been
\* obtained: a file for which no call has succeeded holds what it held
\* before the run, whatever failed.
C2_NoPartialWrite ==
    mpc /= "idle" =>
        \A f \in AllFiles :
            (\A i \in LogIdx : log[i].file = f => log[i].result /= "written")
                => content[f] = OrigContent(f)

\* The events of one file.
JsEvents(f) ==
    SelectSeq(log, LAMBDA e : e.file = f /\ e.ev = "js")

SleepEvents(f) ==
    SelectSeq(log, LAMBDA e : e.file = f /\ e.ev = "sleep")

\* The service has answered the calls for f with 429s and then a 200.
RateLimitedThen200(f) ==
    LET js == JsEvents(f)
    IN  /\ Len(js) >= 1
        /\ js[Len(js)].result \in {"written", "error_body", "dry_run"}
        /\ \A k \in 1..(Len(js) - 1) : js[k].result = "429"

\* The service has answered every call for f so far with 429.
OnlyRateLimited(f) ==
    LET js == JsEvents(f)
    IN  Len(js) >= 1 /\ \A k \in 1..Len(js) : js[k].result = "429"

\* After a 429 comes a wait of 90 seconds for the same file, and after the
\* wait a call for the same file: no other file comes between.
RetriesSameFile ==
    /\ \A i \in LogIdx :
          (log[i].result = "429" /\ i < Len(log)) =>
              /\ log[i + 1].ev = "sleep"
              /\ log[i + 1].file = log[i].file
              /\ log[i + 1].secs = 90
    /\ \A i \in LogIdx :
          log[i].ev = "sleep" =>
              /\ i > 1 /\ log[i - 1].result = "429"
              /\ i < Len(log) => (log[i + 1].ev = "js"
                                  /\ log[i + 1].file = log[i].file)
    /\ (log /= <<>> /\ log[Len(log)].result = "429") => mpc = "sleep"
    /\ (log /= <<>> /\ log[Len(log)].ev = "sleep") => mpc = "retry"

Writes(f) ==
    Cardinality({i \in LogIdx : log[i].file = f /\ log[i].result = "written"})

\* C3, as amended: with dry-run off, n answers of 429 and then a 200 whose
\* body does not begin with // Error make exactly n waits of 90 seconds, on
\* the same file with no other file between, and one rewrite, after which
\* the file holds the body of the 200; the file is unchanged after each
\* 429, and after a 200 whose body begins with // Error.
C3_RateLimit ==
    mpc /= "idle" =>
        /\ RetriesSameFile
        /\ \A f \in AllFiles :
              /\ OnlyRateLimited(f) => content[f] = OrigContent(f)
              /\ (RateLimitedThen200(f) /\ ~minify_args.dry_run) =>
                    LET js == JsEvents(f)
                        text == js[Len(js)].body
                    IN  /\ Len(SleepEvents(f)) = Len(js) - 1
                        /\ IF Marked(text)
                           THEN Writes(f) = 0 /\ content[f] = OrigContent(f)
                           ELSE Writes(f) = 1 /\ content[f] = text

\* C3, as stated: after the 429s and the 200 there has been one rewrite and
\* the file holds the body of the 200.
C3_AsStated ==
    mpc /= "idle" =>
        /\ RetriesSameFile
        /\ \A f \in AllFiles :
              /\ OnlyRateLimited(f) => content[f] = OrigContent(f)
              /\ (RateLimitedThen200(f) /\ ~minify_args.dry_run) =>
                    LET js == JsEvents(f)
                    IN  /\ Len(SleepEvents(f)) = Len(js) - 1
                        /\ Writes(f) = 1
                        /\ content[f] = js[Len(js)].body

\* The answers 429, 429, 200 for one file, and the file rewritten.
C3_Witness ==
    /\ mpc = "files"
    /\ ~minify_args.dry_run
    /\ \E f \in AllFiles :
          /\ Len(JsEvents(f)) = 3
          /\ Len(SleepEvents(f)) = 2
          /\ RateLimitedThen200(f)
          /\ content[f] = <<"v", "=", "1">>

OmitMatches(dir) ==
    \E name \in Range(minify_args.omit_dirname_includes) :
        \E i \in 1..(Len(dir) + 1), j \in 0..Len(dir) : SubSeq(dir, i, j) = name

Below(path, dir) ==
    Len(path) > Len(dir) + 1 /\ SubSeq(path, 1, Len(dir) + 1) = dir \o <<"/">>

NoFileOfOmittedDir ==
    \A dir \in Dirs :
        OmitMatches(dir) => \A i \in LogIdx : ~Below(log[i].file, dir)

\* C4, as amended: a directory whose path holds an omitted name contributes
\* no processed file, and neither does any directory below it; the walk
\* does go on into the directories below it, and passes over each because
\* its path holds the same name.
C4_Pruning ==
    mpc /= "idle" =>
        /\ NoFileOfOmittedDir
        /\ mpc = "done" => Range(walked) = Dirs

\* C4, as stated: no file of such a directory is processed, and no
\* directory below it is ever visited by the walk.
C4_AsStated ==
    mpc /= "idle" =>
        /\ NoFileOfOmittedDir
        /\ \A dir \in Dirs :
              OmitMatches(dir) => \A i \in 1..Len(walked) : ~Below(walked[i], dir)

\* A finished walk that passed over an omitted directory and the one below
\* it while it minified files elsewhere.
C4_Witness ==
    /\ mpc = "done"
    /\ OmitMatches(DirN)
    /\ DirNK \in Range(walked)
    /\ JsCalled /= {} /\ HtmlCalled /= {}

Basename(path) ==
    LET slashes == {i \in 1..Len(path) : path[i] = "/"}
        last == IF slashes = {} THEN 0
                ELSE CHOOSE i \in slashes : \A k \in slashes : k <= i
    IN  SubSeq(path, last + 1, Len(path))

HasPrefix(name, p) == \E k \in 0..Len(name) : SubSeq(name, 1, k) = p

HasSuffix(name, p) == \E k \in 1..(Len(name) + 1) : SubSeq(name, k, Len(name)) = p

HasPart(name, p) ==
    \E i \in 1..(Len(name) + 1), j \in 0..Len(name) : SubSeq(name, i, j) = p

PassesFilters(name) ==
    /\ \A p \in Range(minify_args.omit_filename_starts_with) : ~HasPrefix(name, p)
    /\ \A p \in Range(minify_args.omit_filename_includes) : ~HasPart(name, p)
    /\ \E p \in Range(minify_args.extensions) : HasSuffix(name, p)

JsExtension(name) ==
    HasSuffix(name, DotJs) \/ HasSuffix(name, DotMjs)

Failures == {"http_error", "transport_error"}

FailureSeen ==
    \E i \in LogIdx : log[i].result \in Failures

\* Every file of a directory that is not omitted which passes the filters
\* and whose minifier is enabled has been handed to that minifier.
AllHanded ==
    \A dir \in Dirs : \A f \in FilesOf(dir) :
        (~OmitMatches(dir) /\ PassesFilters(Basename(f))) =>
            /\ (JsExtension(Basename(f)) /\ minify_args.js) => f \in JsCalled
            /\ (~JsExtension(Basename(f)) /\ minify_args.html) => f \in HtmlCalled

\* A failed request leaves the file as it was, is not tried again, and does
\* not end the run or make it wait.
FailureIsSkipped ==
    /\ \A i \in LogIdx :
          log[i].result \in Failures =>
              /\ content[log[i].file] = OrigContent(log[i].file)
              /\ \A j \in (i + 1)..Len(log) : log[j].file /= log[i].file
    /\ (log /= <<>> /\ log[Len(log)].result \in Failures) =>
          mpc \in {"files", "walk", "done"}
    /\ mpc = "done" => AllHanded

C10_DryRun ==
    mpc /= "idle" =>
        \A f \in AllFiles :
            content[f] /= OrigContent(f) => ~minify_args.dry_run

\* A finished dry run in which the HTML minifier ran and the service
\* answered with a 429, a minified body, an error body and a failure.
C10_Witness ==
    /\ mpc = "done"
    /\ minify_args.dry_run
    /\ \E i \in LogIdx : log[i].ev = "html" /\ log[i].result = "dry_run"
    /\ \E i \in LogIdx : log[i].ev = "js" /\ log[i].result = "dry_run"
    /\ \E i \in LogIdx : log[i].result = "429"
    /\ \E i \in LogIdx : log[i].result = "error_body"
    /\ \E i \in LogIdx : log[i].result \in Failures

=============================================================================
